---------------------------- MODULE Spec2Model ----------------------------
(***************************************************************************)
(* State-machine model of the capture scripts of arducam-usbcam-record:    *)
(*   sync_frame_recorder.py  (SyncFrameRecorder, main)      prog = "sync"  *)
(*   usb_recorder.py         (USBRecorder, main --record)   prog = "usb"   *)
(*   dual_camera_recorder.py (DualCameraRecorder, main)     prog = "dual"  *)
(*   tof_recorder.py         (main)                         prog = "tof"   *)
(*                                                                         *)
(* One run of one script is one behaviour: Init picks the script and the   *)
(* --duration argument, the hardware (camera SDK, cv2) answers each call   *)
(* nondeterministically.  Time is counted in ticks of the target cycle     *)
(* period of the sync loop (1/20 s).  A KeyboardInterrupt is delivered     *)
(* while the main thread is in a blocking call (requestFrame, read,        *)
(* sleep, waitKey, join, input).                                           *)
(***************************************************************************)
EXTENDS Integers, FiniteSets, Sequences, TLC

\* ------------------------------------------------------------- bounds
MaxDuration == 2      \* largest --duration, in ticks
MaxAcqTicks == 1      \* longest time one acquisition takes, in ticks
MaxFrames == 2        \* cap on the frames one un-paced loop records
MaxThreadFrames == 1  \* cap on the frames one thread of the dual recorder records
MaxCloseCalls == 2    \* how many times close() is called on one recorder
ScenarioCycles == 6   \* largest --duration of the fake-source scenario, in ticks
MaxRaw == 4200        \* largest magnitude of a raw ToF sample that is converted
MaxNumFrames == 3     \* largest num_frames entered for a continuous capture
MaxIndex == 3         \* largest max_index handed to detect_cameras

Programs == {"sync", "usb", "dual", "tof", "detect", "testcams"}
Streams == {"tof", "usb"}
\* the resolutions (width x height) a frame can have, named per stream in
\* the order in which the stream delivers them: "w1" is the resolution of
\* the stream's first frame, "w2" another one
FrameSizes == {"w1", "w2"}

VARIABLES
    prog,            \* which script runs
    pc,              \* position of the main thread
    mainExit,        \* how main ended: "running", "normal", "error", "interrupt"
    pending,         \* exception in flight inside the record call: "none", "error", "interrupt"
    result,          \* what the record call returned to its caller: "none", "summary"
    interrupted,     \* a KeyboardInterrupt has been delivered
    duration_seconds,
    now,             \* time.time()
    start_time,
    capture_time,
    is_recording,
    tof_camera,      \* [set, open, started, stops, closes]
    usb_camera,      \* [set, open, releases]
    writer,          \* per stream: [st, writes, rel]
    frame_count,
    sync_failures,
    tof_failures,
    usb_failures,
    both_failures,
    cycles,          \* ghost: cycles the sync loop has started
    tofRes,          \* outcome of this cycle's ToF acquisition
    usbRes,          \* outcome of this cycle's USB acquisition
    closeCalls,      \* ghost: calls of close() so far
    initError,       \* ghost: which device failed in initialize_cameras
    tpc,             \* dual: position of each recording thread
    frames,          \* dual: each thread's frame_count
    results,         \* dual: self.results, per key "none", "summary" or "error"
    joinTimedOut,    \* ghost, dual: threads still alive when join(timeout=5) returned
    unreleased,      \* ghost: a frame obtained from requestFrame was not given back
    frameSize,       \* sync: resolution of this cycle's tof_frame / usb_frame, "none" if None
    firstSize,       \* ghost: resolution of the first frame each stream delivered
    summary,         \* sync, usb: the dict the record call returns ({} before, then {dict})
    threadSummary,   \* dual: the dict a thread stores in self.results ({} before)
    raw,             \* one sample of a RawData buffer
    pix,             \* the sample converted to 8 bits ({} before, then {value})
    outputDir,       \* whether a recording call has made sure of its output directory
    num_frames,      \* continuous_capture: the number of frames asked for
    loop_i,          \* continuous_capture: the loop variable i of range(num_frames)
    attempts,        \* continuous_capture: calls of capture_single_frame so far
    succeeded,       \* continuous_capture: the attempts (from 1) that delivered depth data
    saved,           \* continuous_capture: per frame number, the calls of save_raw_data
    ccState,         \* continuous_capture: "none", "running", "returned" or "raised"
    max_index,       \* detect_cameras: the number of indices to probe
    probe_i,         \* detect_cameras: the loop variable i of range(max_index)
    handles,         \* detect_cameras: the indices whose device is held open
    available_cameras, \* detect_cameras: the list that is returned
    delivered,       \* detect_cameras: the indices that opened and delivered a frame
    probed,          \* detect_cameras: the indices probed so far, in order
    detState,        \* detect_cameras: "none", "running", "returned" or "raised"
    usb_ok,          \* test_cameras.py: "unset", then what test_usb_camera returned
    tof_ok,          \* test_cameras.py: "unset", then what test_tof_camera returned
    exit_status      \* test_cameras.py: {} until the process exits, then {status}

vars == << prog, pc, mainExit, pending, result, interrupted, duration_seconds,
           now, start_time, capture_time, is_recording, tof_camera, usb_camera,
           writer, frame_count, sync_failures, tof_failures, usb_failures,
           both_failures, cycles, tofRes, usbRes, closeCalls, initError,
           tpc, frames, results, joinTimedOut, unreleased,
           frameSize, firstSize, summary, threadSummary, raw, pix, outputDir,
           num_frames, loop_i, attempts, succeeded, saved, ccState,
           max_index, probe_i, handles, available_cameras, delivered, probed,
           detState, usb_ok, tof_ok, exit_status >>

\* the state of the two recording threads of DualCameraRecorder
dualVars == << tpc, frames, results >>

\* bookkeeping added to the programs' own state
frameVars == << unreleased, frameSize, firstSize >>
reportVars == << summary, threadSummary >>
pixelVars == << raw, pix >>
captureVars == << num_frames, loop_i, attempts, succeeded, saved, ccState >>
detectVars == << max_index, probe_i, handles, available_cameras, delivered,
                probed, detState >>
testVars == << usb_ok, tof_ok, exit_status >>
baseExtra == << joinTimedOut, frameVars, reportVars, pixelVars, captureVars,
               detectVars, testVars >>
extraVars == << baseExtra, outputDir >>

\* ------------------------------------------------------------ devices
NoTof == [set |-> FALSE, open |-> FALSE, started |-> FALSE, stops |-> 0, closes |-> 0]
NoUsb == [set |-> FALSE, open |-> FALSE, releases |-> 0]
NoWriter == [st |-> "none", size |-> "none", opens |-> 0, first |-> "none",
             writes |-> 0, rel |-> 0]

\* camera.stop(): streaming ends; the call is counted
TofStop(c) == [c EXCEPT !.started = FALSE, !.stops = @ + 1]
\* camera.close(): the device handle is given back; the call is counted
TofClose(c) == [c EXCEPT !.open = FALSE, !.started = FALSE, !.closes = @ + 1]
\* cv2.VideoCapture.release()
UsbRelease(c) == [c EXCEPT !.open = FALSE, !.releases = @ + 1]

\* `if writer: writer.release()`: a VideoWriter object is truthy whether or
\* not its encoder opened
ReleaseWriter(w) == IF w.st # "none" THEN [w EXCEPT !.rel = @ + 1] ELSE w
\* a writer created anew for every frame, at that frame's resolution
OpenWriterEveryFrame(w, o, sz) == [w EXCEPT !.st = o, !.size = sz, !.opens = @ + 1]
\* `if writer is None: height, width = frame.shape[:2]; writer =
\* cv2.VideoWriter(filename, fourcc, fps, (width, height))`: the object is
\* returned with its encoder opened ("open") or not ("bad")
OpenWriter(w, o, sz) ==
    IF w.st = "none" THEN [w EXCEPT !.st = o, !.size = sz, !.opens = @ + 1] ELSE w
\* writer.write(frame); `first` remembers the resolution of the first frame
\* handed to the writer
WriteFrame(w, sz) ==
    [w EXCEPT !.writes = @ + 1, !.first = IF w.writes = 0 THEN sz ELSE @]
\* the resolutions the next frame of a stream can have, `first` being the
\* resolution of the frames it has delivered so far
NextSizes(first) == IF first = "none" THEN {"w1"} ELSE FrameSizes
\* the resolution of the first frame stream s delivered, after an
\* acquisition of s with outcome o and a frame of resolution sz
FirstSize(f, s, o, sz) == IF o = "ok" /\ f[s] = "none" THEN [f EXCEPT ![s] = sz] ELSE f

tof_success == tofRes = "ok"
usb_success == usbRes = "ok"

\* the state in which a script starts, for a --duration of at most maxd ticks
InitRun(maxd) ==
    /\ prog \in Programs
    /\ duration_seconds \in 0..maxd
    /\ pc = "start"
    /\ mainExit = "running"
    /\ pending = "none"
    /\ result = "none"
    /\ interrupted = FALSE
    /\ now = 0
    /\ start_time = 0
    /\ capture_time = 0
    /\ is_recording = FALSE
    /\ tof_camera = NoTof
    /\ usb_camera = NoUsb
    /\ writer = [s \in Streams |-> NoWriter]
    /\ frame_count = 0
    /\ sync_failures = 0
    /\ tof_failures = 0
    /\ usb_failures = 0
    /\ both_failures = 0
    /\ cycles = 0
    /\ tofRes = "unset"
    /\ usbRes = "unset"
    /\ closeCalls = 0
    /\ initError = "none"
    /\ tpc = [t \in Streams |-> "unstarted"]
    /\ frames = [t \in Streams |-> 0]
    /\ results = [t \in Streams |-> "none"]
    /\ joinTimedOut = {}
    /\ unreleased = FALSE
    /\ frameSize = [s \in Streams |-> "none"]
    /\ firstSize = [s \in Streams |-> "none"]
    /\ summary = {}
    /\ threadSummary = [t \in Streams |-> {}]
    /\ pix = {}
    /\ outputDir = FALSE
    /\ num_frames = 0
    /\ loop_i = 0
    /\ attempts = 0
    /\ succeeded = {}
    /\ saved = [k \in 0..MaxNumFrames |-> 0]
    /\ ccState = "none"
    /\ max_index = 0
    /\ probe_i = 0
    /\ handles = {}
    /\ available_cameras = << >>
    /\ delivered = {}
    /\ probed = << >>
    /\ detState = "none"
    /\ usb_ok = "unset"
    /\ tof_ok = "unset"
    /\ exit_status = {}

Init == InitRun(MaxDuration) /\ raw = 0

\* ------------------------------------------- initialize_cameras (sync, dual)
\* an except branch that re-raises without touching the ToF camera
UsbInitFailureNoCleanup(c) == c

\* the except branch of the USB block: `if self.tof_camera: stop(); close()`
UsbInitFailureCleanup(c) == IF c.set THEN TofClose(TofStop(c)) ELSE c

\* the ToF block: ArducamCamera(), open(), start(); a failure is re-raised
\* and reaches main's `except Exception`
InitTof ==
    /\ prog \in {"sync", "dual"}
    /\ pc = "start"
    /\ \E o \in {"ok", "open_failed", "start_failed"} :
         /\ tof_camera' =
              CASE o = "ok" -> [tof_camera EXCEPT !.set = TRUE, !.open = TRUE, !.started = TRUE]
                [] o = "open_failed" -> [tof_camera EXCEPT !.set = TRUE]
                [] o = "start_failed" ->
                     TofClose([tof_camera EXCEPT !.set = TRUE, !.open = TRUE])
         /\ pc' = IF o = "ok" THEN "init_usb" ELSE "cleanup"
         /\ mainExit' = IF o = "ok" THEN mainExit ELSE "error"
         /\ initError' = IF o = "ok" THEN initError ELSE "tof"
    /\ UNCHANGED << prog, pending, result, interrupted, duration_seconds, now,
                    start_time, capture_time, is_recording, usb_camera, writer,
                    frame_count, sync_failures, tof_failures, usb_failures,
                    both_failures, cycles, tofRes, usbRes, closeCalls,
                    dualVars, extraVars >>

\* the USB block: VideoCapture(index), isOpened(); on failure the ToF camera
\* is stopped and closed and the error re-raised
InitUsb ==
    /\ prog \in {"sync", "dual"}
    /\ pc = "init_usb"
    /\ \E opened \in BOOLEAN :
         /\ usb_camera' = [usb_camera EXCEPT !.set = TRUE, !.open = opened]
         /\ tof_camera' = IF opened THEN tof_camera ELSE UsbInitFailureCleanup(tof_camera)
         /\ pc' = IF opened THEN "record" ELSE "cleanup"
         /\ mainExit' = IF opened THEN mainExit ELSE "error"
         /\ initError' = IF opened THEN initError ELSE "usb"
    /\ UNCHANGED << prog, pending, result, interrupted, duration_seconds, now,
                    start_time, capture_time, is_recording, writer,
                    frame_count, sync_failures, tof_failures, usb_failures,
                    both_failures, cycles, tofRes, usbRes, closeCalls,
                    dualVars, extraVars >>

\* --------------------------- SyncFrameRecorder.record_synchronized_frames
\* lines 77-99: is_recording = True, writers None, counters 0
SyncRecordBegin ==
    /\ prog = "sync"
    /\ pc = "record"
    /\ outputDir' = TRUE
    /\ is_recording' = TRUE
    /\ start_time' = now
    /\ pc' = "head"
    /\ UNCHANGED << prog, mainExit, pending, result, interrupted, duration_seconds,
                    now, capture_time, tof_camera, usb_camera, writer,
                    frame_count, sync_failures, tof_failures, usb_failures,
                    both_failures, cycles, tofRes, usbRes, closeCalls, initError,
                    dualVars, baseExtra,
                    captureVars,
                    detectVars,
                    testVars >>

\* a loop condition that tests the duration only
KeepRecordingIgnoresFlag == (now - start_time) < duration_seconds

\* the loop condition of line 102
KeepRecording == is_recording /\ (now - start_time) < duration_seconds

\* line 102-110: test the condition; a new cycle takes its capture_time and
\* resets the two outcomes
SyncLoopHead ==
    /\ prog = "sync"
    /\ pc = "head"
    /\ IF KeepRecording
         THEN /\ pc' = "tof"
              /\ capture_time' = now
              /\ cycles' = cycles + 1
              /\ tofRes' = "unset"
              /\ usbRes' = "unset"
              /\ frameSize' = [s \in Streams |-> "none"]
         ELSE /\ pc' = "finally"
              /\ UNCHANGED << capture_time, cycles, tofRes, usbRes, frameSize >>
    /\ UNCHANGED << prog, mainExit, pending, result, interrupted, duration_seconds,
                    now, start_time, is_recording, tof_camera, usb_camera, writer,
                    frame_count, sync_failures, tof_failures, usb_failures,
                    both_failures, closeCalls, initError,
                    dualVars, joinTimedOut, unreleased, firstSize,
                    reportVars,
                    pixelVars,
                    outputDir,
                    captureVars,
                    detectVars,
                    testVars >>

\* an acquisition whose exception is not caught around it
AfterTofAcquirePropagates(o) == IF o = "raise" THEN "finally" ELSE "usb"

\* where the loop goes after an acquisition with outcome o: the try/except
\* Exception around each acquisition swallows a raise
AfterTofAcquire(o) == "usb"
AfterUsbAcquire(o) == "classify"

\* whether an acquisition with outcome o keeps the frame it obtained: the
\* frame is given back (releaseFrame) in the branch of a frame that is not
\* None and is RawData; a frame of another type takes the else branch,
\* which only prints
TofFrameKept(o) == o = "wrongtype"

\* lines 113-134: requestFrame(200); "ok" a RawData frame, "invalid" None,
\* "wrongtype" a frame of another type, "raise" an exception of the SDK or
\* of the conversion
SyncAcquireTof ==
    /\ prog = "sync"
    /\ pc = "tof"
    /\ \E o \in {"ok", "invalid", "wrongtype", "raise"}, dt \in 0..MaxAcqTicks,
          sz \in NextSizes(firstSize["tof"]) :
         /\ (o # "ok" => sz = "w1")
         /\ tofRes' = IF o = "wrongtype" THEN "invalid" ELSE o
         /\ unreleased' = (unreleased \/ TofFrameKept(o))
         /\ frameSize' = [frameSize EXCEPT !["tof"] = IF o = "ok" THEN sz ELSE "none"]
         /\ firstSize' = FirstSize(firstSize, "tof", o, sz)
         /\ now' = now + dt
         /\ pc' = AfterTofAcquire(o)
         /\ pending' = IF AfterTofAcquire(o) = "finally" THEN "error" ELSE pending
    /\ UNCHANGED << prog, mainExit, result, interrupted, duration_seconds,
                    start_time, capture_time, is_recording, tof_camera, usb_camera,
                    writer, frame_count, sync_failures, tof_failures, usb_failures,
                    both_failures, cycles, usbRes, closeCalls, initError,
                    dualVars, joinTimedOut,
                    reportVars,
                    pixelVars,
                    outputDir,
                    captureVars,
                    detectVars,
                    testVars >>

\* a USB read that is only attempted after a ToF frame was obtained
UsbOutcomesAfterTofOnly(ts) ==
    IF ts = "ok" THEN {"ok", "invalid", "raise"} ELSE {"invalid"}

\* the outcomes usb_camera.read() can have in a cycle whose ToF acquisition
\* ended with ts: the read is a statement of its own after the ToF try block
\* and reads nothing the ToF block wrote
UsbOutcomes(ts) == {"ok", "invalid", "raise"}

\* lines 137-146: usb_camera.read(); "ok" ret and a frame, "invalid" ret false
\* or no frame, "raise" an exception
SyncAcquireUsb ==
    /\ prog = "sync"
    /\ pc = "usb"
    /\ \E o \in UsbOutcomes(tofRes), dt \in 0..MaxAcqTicks,
          sz \in NextSizes(firstSize["usb"]) :
         /\ (o # "ok" => sz = "w1")
         /\ usbRes' = o
         /\ frameSize' = [frameSize EXCEPT !["usb"] = IF o = "ok" THEN sz ELSE "none"]
         /\ firstSize' = FirstSize(firstSize, "usb", o, sz)
         /\ now' = now + dt
         /\ pc' = AfterUsbAcquire(o)
         /\ pending' = IF AfterUsbAcquire(o) = "finally" THEN "error" ELSE pending
    /\ UNCHANGED << prog, mainExit, result, interrupted, duration_seconds,
                    start_time, capture_time, is_recording, tof_camera, usb_camera,
                    writer, frame_count, sync_failures, tof_failures, usb_failures,
                    both_failures, cycles, tofRes, closeCalls, initError,
                    dualVars, joinTimedOut, unreleased,
                    reportVars,
                    pixelVars,
                    outputDir,
                    captureVars,
                    detectVars,
                    testVars >>

\* a cycle counted as matched as soon as one source delivered
MatchedCycleEither(ts, us) == ts \/ us

\* line 153: the cycle is matched
MatchedCycle(ts, us) == ts /\ us

\* the three tests written as independent ifs instead of if/elif/elif
FailureKindsNoElif(ts, us) ==
    (IF ~ts /\ ~us THEN {"both"} ELSE {})
        \cup (IF ~ts THEN {"tof"} ELSE {})
        \cup (IF ~us THEN {"usb"} ELSE {})

\* the two single-source tests exchanged
FailureKindsSwapped(ts, us) ==
    IF ~ts /\ ~us THEN {"both"}
    ELSE IF ~ts THEN {"usb"}
    ELSE IF ~us THEN {"tof"}
    ELSE {}

\* lines 177-185: the sub-counters a failed cycle increments
FailureKinds(ts, us) ==
    IF ~ts /\ ~us THEN {"both"}
    ELSE IF ~ts THEN {"tof"}
    ELSE IF ~us THEN {"usb"}
    ELSE {}

\* lines 153-188.  Matched: the writers are created on the first matched
\* cycle (each creation "open", "bad" or "raise"), both frames are written,
\* frame_count grows.  A frame is written only when it is not None, that is
\* when its acquisition succeeded.  Failed: the counters grow, sleep(0.001).
SyncClassify ==
    /\ prog = "sync"
    /\ pc = "classify"
    /\ IF MatchedCycle(tof_success, usb_success)
         THEN \E ot \in {"open", "bad", "raise"}, ou \in {"open", "bad", "raise"} :
                LET needT == writer["tof"].st = "none" /\ tof_success
                    needU == writer["usb"].st = "none" /\ usb_success
                    raisedT == needT /\ ot = "raise"
                    raisedU == ~raisedT /\ needU /\ ou = "raise"
                    wt == IF needT /\ ~raisedT THEN OpenWriter(writer["tof"], ot, frameSize["tof"])
                          ELSE writer["tof"]
                    wu == IF needU /\ ~raisedT /\ ~raisedU THEN OpenWriter(writer["usb"], ou, frameSize["usb"])
                          ELSE writer["usb"]
                IN  /\ (~needT => ot = "open")
                    /\ ((~needU \/ raisedT) => ou = "open")
                    /\ IF raisedT \/ raisedU
                         THEN /\ writer' = [writer EXCEPT !["tof"] = wt, !["usb"] = wu]
                              /\ pending' = "error"
                              /\ pc' = "finally"
                              /\ UNCHANGED frame_count
                         ELSE /\ writer' = [writer EXCEPT
                                   !["tof"] = IF wt.st # "none" /\ tof_success
                                              THEN WriteFrame(wt, frameSize["tof"]) ELSE wt,
                                   !["usb"] = IF wu.st # "none" /\ usb_success
                                              THEN WriteFrame(wu, frameSize["usb"]) ELSE wu]
                              /\ frame_count' = frame_count + 1
                              /\ pc' = "pace"
                              /\ UNCHANGED pending
                    /\ UNCHANGED << sync_failures, tof_failures, usb_failures, both_failures >>
         ELSE LET k == FailureKinds(tof_success, usb_success)
              IN  /\ sync_failures' = sync_failures + 1
                  /\ both_failures' = both_failures + (IF "both" \in k THEN 1 ELSE 0)
                  /\ tof_failures' = tof_failures + (IF "tof" \in k THEN 1 ELSE 0)
                  /\ usb_failures' = usb_failures + (IF "usb" \in k THEN 1 ELSE 0)
                  /\ pc' = "pace"
                  /\ UNCHANGED << writer, frame_count, pending >>
    /\ UNCHANGED << prog, mainExit, result, interrupted, duration_seconds, now,
                    start_time, capture_time, is_recording, tof_camera, usb_camera,
                    cycles, tofRes, usbRes, closeCalls, initError,
                    dualVars, extraVars >>

\* lines 191-194: sleep for the rest of the target period (one tick)
\* a loop that starts the next cycle as soon as the last one was processed
PacedTimeNoSleep(n, ct) == n

\* the time at which the loop goes on after a cycle that started at ct and
\* was processed by n: frame_time = time.time() - capture_time, and a sleep of
\* the remainder of the target period (1 tick) when frame_time is shorter
PacedTime(n, ct) == IF n - ct < 1 THEN ct + 1 ELSE n

SyncPace ==
    /\ prog = "sync"
    /\ pc = "pace"
    /\ now' = PacedTime(now, capture_time)
    /\ pc' = "head"
    /\ UNCHANGED << prog, mainExit, pending, result, interrupted, duration_seconds,
                    start_time, capture_time, is_recording, tof_camera, usb_camera,
                    writer, frame_count, sync_failures, tof_failures, usb_failures,
                    both_failures, cycles, tofRes, usbRes, closeCalls, initError,
                    dualVars, extraVars >>

\* lines 196-198: a KeyboardInterrupt raised in a blocking call of the loop
\* is caught; is_recording = False
SyncInterrupt ==
    /\ prog = "sync"
    /\ pc \in {"tof", "usb", "pace"}
    /\ ~interrupted
    /\ interrupted' = TRUE
    /\ is_recording' = FALSE
    /\ pc' = "finally"
    /\ UNCHANGED << prog, mainExit, pending, result, duration_seconds, now,
                    start_time, capture_time, tof_camera, usb_camera,
                    writer, frame_count, sync_failures, tof_failures, usb_failures,
                    both_failures, cycles, tofRes, usbRes, closeCalls, initError,
                    dualVars, extraVars >>

\* lines 200-204: release both writers; an exception in flight goes on to
\* main's `except Exception`
SyncFinally ==
    /\ prog = "sync"
    /\ pc = "finally"
    /\ writer' = [s \in Streams |-> ReleaseWriter(writer[s])]
    /\ IF pending = "error"
         THEN /\ pc' = "cleanup"
              /\ mainExit' = "error"
              /\ pending' = "none"
         ELSE /\ pc' = "summary"
              /\ UNCHANGED << mainExit, pending >>
    /\ UNCHANGED << prog, result, interrupted, duration_seconds, now,
                    start_time, capture_time, is_recording, tof_camera, usb_camera,
                    frame_count, sync_failures, tof_failures, usb_failures,
                    both_failures, cycles, tofRes, usbRes, closeCalls, initError,
                    dualVars, extraVars >>

\* a quotient is kept as the pair of the two numbers divided; a denominator
\* of 0 stands for the ZeroDivisionError of the division
\* a rate computed without the guard
AverageRateUnguarded(fc, el) == [num |-> fc, den |-> el]

\* `fps = frame_count / elapsed_time if elapsed_time > 0 else 0` (sync line
\* 207, usb line 112, dual lines 116 and 159)
AverageRate(fc, el) == IF el > 0 THEN [num |-> fc, den |-> el] ELSE [num |-> 0, den |-> 1]

\* a ratio that is not turned into percent
SuccessRateAsFraction(fc, sf) ==
    IF fc + sf > 0 THEN [num |-> fc, den |-> fc + sf] ELSE [num |-> 0, den |-> 1]

\* `sync_success_rate = (frame_count / (frame_count + sync_failures)) * 100
\* if (frame_count + sync_failures) > 0 else 0` (line 208)
SuccessRate(fc, sf) ==
    IF fc + sf > 0 THEN [num |-> 100 * fc, den |-> fc + sf] ELSE [num |-> 0, den |-> 1]

\* lines 206-230: the summary is computed and returned
SyncSummary ==
    /\ prog = "sync"
    /\ pc = "summary"
    /\ result' = "summary"
    /\ summary' = {[duration |-> now - start_time,
                    frame_count |-> frame_count,
                    sync_failures |-> sync_failures,
                    sync_success_rate |-> SuccessRate(frame_count, sync_failures),
                    fps |-> AverageRate(frame_count, now - start_time)]}
    /\ pc' = "cleanup"
    /\ UNCHANGED << prog, mainExit, pending, interrupted, duration_seconds, now,
                    start_time, capture_time, is_recording, tof_camera, usb_camera,
                    writer, frame_count, sync_failures, tof_failures, usb_failures,
                    both_failures, cycles, tofRes, usbRes, closeCalls, initError,
                    dualVars, joinTimedOut, frameVars, threadSummary,
                    pixelVars,
                    outputDir,
                    captureVars,
                    detectVars,
                    testVars >>

\* SyncFrameRecorder.stop_recording called from outside while the loop runs
SyncStopRecording ==
    /\ prog = "sync"
    /\ pc \in {"head", "tof", "usb", "classify", "pace"}
    /\ is_recording
    /\ is_recording' = FALSE
    /\ UNCHANGED << prog, pc, mainExit, pending, result, interrupted, duration_seconds,
                    now, start_time, capture_time, tof_camera, usb_camera,
                    writer, frame_count, sync_failures, tof_failures, usb_failures,
                    both_failures, cycles, tofRes, usbRes, closeCalls, initError,
                    dualVars, extraVars >>

\* SyncFrameRecorder.close, lines 235-243
SyncCloseTof(c) == IF c.set THEN TofClose(TofStop(c)) ELSE c
SyncCloseUsb(c) == IF c.set THEN UsbRelease(c) ELSE c

\* main's finally (pc = "cleanup"), and close() called again after it
SyncClose ==
    /\ prog = "sync"
    /\ pc \in {"cleanup", "exit"}
    /\ closeCalls < MaxCloseCalls
    /\ is_recording' = FALSE
    /\ tof_camera' = SyncCloseTof(tof_camera)
    /\ usb_camera' = SyncCloseUsb(usb_camera)
    /\ closeCalls' = closeCalls + 1
    /\ pc' = "exit"
    /\ mainExit' = IF mainExit = "running" THEN "normal" ELSE mainExit
    /\ UNCHANGED << prog, pending, result, interrupted, duration_seconds, now,
                    start_time, capture_time, writer, frame_count, sync_failures,
                    tof_failures, usb_failures, both_failures, cycles, tofRes, usbRes,
                    initError,
                    dualVars, extraVars >>

SyncNext ==
    \/ SyncRecordBegin
    \/ SyncLoopHead
    \/ SyncAcquireTof
    \/ SyncAcquireUsb
    \/ SyncClassify
    \/ SyncPace
    \/ SyncInterrupt
    \/ SyncFinally
    \/ SyncSummary
    \/ SyncStopRecording
    \/ SyncClose

\* the state only the sync loop uses
syncVars == << sync_failures, tof_failures, usb_failures, both_failures, cycles,
               tofRes, usbRes, capture_time >>

\* ------------------------------------------------------------ USBRecorder
\* initialize_camera, lines 46-64: VideoCapture(index); not opened raises
UsbInitCamera ==
    /\ prog = "usb"
    /\ pc = "start"
    /\ \E opened \in BOOLEAN :
         /\ usb_camera' = [usb_camera EXCEPT !.set = TRUE, !.open = opened]
         /\ pc' = IF opened THEN "record" ELSE "cleanup"
         /\ mainExit' = IF opened THEN mainExit ELSE "error"
         /\ initError' = IF opened THEN initError ELSE "usb"
    /\ UNCHANGED << prog, pending, result, interrupted, duration_seconds, now,
                    start_time, is_recording, tof_camera, writer, frame_count,
                    closeCalls, syncVars, dualVars, extraVars >>

\* a record_video without its check of the camera
RecordVideoNeverRaises(c) == FALSE

\* lines 67-68: `if not self.camera: raise RuntimeError`; self.camera is None
\* until initialize_camera has assigned the capture handle
RecordVideoRaises(c) == ~c.set

\* record_video, lines 67-83, called by main after initialize_camera
\* (pc = "record") or by a caller that never initialized the recorder
\* (pc = "start"); the RuntimeError goes to the caller, which cleans up
UsbRecordBegin ==
    /\ prog = "usb"
    /\ pc \in {"start", "record"}
    /\ IF RecordVideoRaises(usb_camera)
         THEN /\ mainExit' = "error"
              /\ pc' = "cleanup"
              /\ UNCHANGED << is_recording, start_time, outputDir >>
         ELSE /\ outputDir' = TRUE
              /\ is_recording' = TRUE
              /\ start_time' = now
              /\ pc' = "head"
              /\ UNCHANGED mainExit
    /\ UNCHANGED << prog, pending, result, interrupted, duration_seconds,
                    now, tof_camera, usb_camera, writer, frame_count, closeCalls,
                    initError, syncVars, dualVars, baseExtra,
                    captureVars,
                    detectVars,
                    testVars >>

\* line 86
UsbLoopHead ==
    /\ prog = "usb"
    /\ pc = "head"
    /\ pc' = IF KeepRecording THEN "read" ELSE "finally"
    /\ UNCHANGED << prog, mainExit, pending, result, interrupted, duration_seconds,
                    now, start_time, is_recording, tof_camera, usb_camera, writer,
                    frame_count, closeCalls, initError, syncVars, dualVars, extraVars >>

\* lines 87-103: camera.read(); on ret the writer is created at the first
\* frame ("open", "bad" or "raise"), the frame written and counted, and the
\* 'q' key breaks the loop; otherwise sleep(0.01)
UsbRead ==
    /\ prog = "usb"
    /\ pc = "read"
    /\ \E o \in {"ok", "invalid", "raise"}, dt \in 0..MaxAcqTicks,
          ow \in {"open", "bad", "raise"}, q \in BOOLEAN,
          sz \in NextSizes(firstSize["usb"]) :
         /\ (o # "ok" => sz = "w1")
         /\ firstSize' = FirstSize(firstSize, "usb", o, sz)
         /\ now' = now + dt
         /\ (o = "ok" => frame_count < MaxFrames)
         /\ ((o # "ok" \/ writer["usb"].st # "none") => ow = "open")
         /\ (o # "ok" \/ ow = "raise" => ~q)
         /\ CASE o = "raise" \/ (o = "ok" /\ ow = "raise") ->
                   /\ pending' = "error"
                   /\ pc' = "finally"
                   /\ UNCHANGED << writer, frame_count >>
              [] o = "ok" /\ ow # "raise" ->
                   /\ writer' = [writer EXCEPT
                                   !["usb"] = WriteFrame(OpenWriter(writer["usb"], ow, sz), sz)]
                   /\ frame_count' = frame_count + 1
                   /\ pc' = IF q THEN "finally" ELSE "head"
                   /\ UNCHANGED pending
              [] o = "invalid" ->
                   /\ pc' = "head"
                   /\ UNCHANGED << writer, frame_count, pending >>
    /\ UNCHANGED << prog, mainExit, result, interrupted, duration_seconds,
                    start_time, is_recording, tof_camera, usb_camera, closeCalls,
                    initError, syncVars, dualVars, joinTimedOut, unreleased,
                    frameSize,
                    reportVars,
                    pixelVars,
                    outputDir,
                    captureVars,
                    detectVars,
                    testVars >>

\* a KeyboardInterrupt raised in read(), waitKey() or sleep(): record_video
\* has no except clause, only the finally
UsbInterrupt ==
    /\ prog = "usb"
    /\ pc = "read"
    /\ ~interrupted
    /\ interrupted' = TRUE
    /\ pending' = "interrupt"
    /\ pc' = "finally"
    /\ UNCHANGED << prog, mainExit, result, duration_seconds, now, start_time,
                    is_recording, tof_camera, usb_camera, writer, frame_count,
                    closeCalls, initError, syncVars, dualVars, extraVars >>

\* lines 105-109: is_recording = False, the writer released; an exception
\* in flight leaves record_video: an Exception is caught by main (line 195),
\* a KeyboardInterrupt is not
UsbFinally ==
    /\ prog = "usb"
    /\ pc = "finally"
    /\ is_recording' = FALSE
    /\ writer' = [writer EXCEPT !["usb"] = ReleaseWriter(writer["usb"])]
    /\ IF pending = "none"
         THEN /\ pc' = "summary"
              /\ UNCHANGED << mainExit, pending >>
         ELSE /\ pc' = "cleanup"
              /\ mainExit' = pending
              /\ pending' = "none"
    /\ UNCHANGED << prog, result, interrupted, duration_seconds, now, start_time,
                    tof_camera, usb_camera, frame_count, closeCalls, initError,
                    syncVars, dualVars, extraVars >>

\* lines 111-125
UsbSummary ==
    /\ prog = "usb"
    /\ pc = "summary"
    /\ result' = "summary"
    /\ summary' = {[duration |-> now - start_time,
                    frame_count |-> frame_count,
                    fps |-> AverageRate(frame_count, now - start_time)]}
    /\ pc' = "cleanup"
    /\ UNCHANGED << prog, mainExit, pending, interrupted, duration_seconds, now,
                    start_time, is_recording, tof_camera, usb_camera, writer,
                    frame_count, closeCalls, initError, syncVars, dualVars,
                    joinTimedOut, frameVars, threadSummary,
                    pixelVars,
                    outputDir,
                    captureVars,
                    detectVars,
                    testVars >>

\* USBRecorder.stop_recording called from outside while the loop runs
UsbStopRecording ==
    /\ prog = "usb"
    /\ pc \in {"head", "read"}
    /\ is_recording
    /\ is_recording' = FALSE
    /\ UNCHANGED << prog, pc, mainExit, pending, result, interrupted,
                    duration_seconds, now, start_time, tof_camera, usb_camera,
                    writer, frame_count, closeCalls, initError, syncVars, dualVars, extraVars >>

\* USBRecorder.close, lines 130-133: main's finally, and close() called again
UsbClose ==
    /\ prog = "usb"
    /\ pc \in {"cleanup", "exit"}
    /\ closeCalls < MaxCloseCalls
    /\ usb_camera' = IF usb_camera.set THEN UsbRelease(usb_camera) ELSE usb_camera
    /\ closeCalls' = closeCalls + 1
    /\ pc' = "exit"
    /\ mainExit' = IF mainExit = "running" THEN "normal" ELSE mainExit
    /\ UNCHANGED << prog, pending, result, interrupted, duration_seconds, now,
                    start_time, is_recording, tof_camera, writer, frame_count,
                    initError, syncVars, dualVars, extraVars >>

UsbNext ==
    \/ UsbInitCamera
    \/ UsbRecordBegin
    \/ UsbLoopHead
    \/ UsbRead
    \/ UsbInterrupt
    \/ UsbFinally
    \/ UsbSummary
    \/ UsbStopRecording
    \/ UsbClose

\* ----------------------------------------------------- DualCameraRecorder
\* record_synchronized, lines 173-189
DualRecordBegin ==
    /\ prog = "dual"
    /\ pc = "record"
    /\ outputDir' = TRUE
    /\ is_recording' = TRUE
    /\ results' = [t \in Streams |-> "none"]
    /\ start_time' = now
    /\ pc' = "threads"
    /\ UNCHANGED << prog, mainExit, pending, result, interrupted, duration_seconds,
                    now, tof_camera, usb_camera, writer, frame_count, closeCalls,
                    initError, syncVars, tpc, frames, baseExtra,
                    captureVars,
                    detectVars,
                    testVars >>

\* lines 192-193: both threads are started; each reads its own start_time
\* (lines 84, 137) within the tick in which the controller read its own
\* (line 189), so the three are one value
DualStartThreads ==
    /\ prog = "dual"
    /\ pc = "threads"
    /\ tpc' = [t \in Streams |-> "head"]
    /\ pc' = "wait"
    /\ UNCHANGED << prog, mainExit, pending, result, interrupted, duration_seconds,
                    now, start_time, is_recording, tof_camera, usb_camera, writer,
                    frame_count, closeCalls, initError, syncVars, frames, results, extraVars >>

is_alive(t) == tpc[t] \in {"head", "acq"}

\* lines 195-198: the controller sleeps 0.1 s per round and leaves when the
\* flag is cleared, the duration is over or both threads are dead
DualWait ==
    /\ prog = "dual"
    /\ pc = "wait"
    /\ pc' = IF KeepRecording /\ (\E t \in Streams : is_alive(t))
               THEN "wait" ELSE "join_tof"
    /\ UNCHANGED << prog, mainExit, pending, result, interrupted, duration_seconds,
                    now, start_time, is_recording, tof_camera, usb_camera, writer,
                    frame_count, closeCalls, initError, syncVars, dualVars, extraVars >>

\* lines 200-202: a KeyboardInterrupt inside the try is caught and the stop
\* flag cleared
DualInterruptInTry ==
    /\ prog = "dual"
    /\ pc = "wait"
    /\ ~interrupted
    /\ interrupted' = TRUE
    /\ is_recording' = FALSE
    /\ pc' = "join_tof"
    /\ UNCHANGED << prog, mainExit, pending, result, duration_seconds, now,
                    start_time, tof_camera, usb_camera, writer, frame_count,
                    closeCalls, initError, syncVars, dualVars, extraVars >>

\* lines 204-205: join(timeout=5) returns when the thread has ended or when
\* the 5 s are over with the thread still in a hardware wait (read() of the
\* USB camera has no timeout of its own); a thread that ends in time is the
\* interleaving in which its steps come first.  A thread between two
\* acquisitions tests its loop condition, which no longer holds, well
\* within the timeout, so a join does not time out on it.  A join that
\* returned with its thread alive is remembered.
DualJoin ==
    /\ prog = "dual"
    /\ pc \in {"join_tof", "join_usb"}
    /\ LET t == IF pc = "join_tof" THEN "tof" ELSE "usb"
       IN  /\ tpc[t] # "head"
           /\ joinTimedOut' = IF is_alive(t) THEN joinTimedOut \cup {t} ELSE joinTimedOut
    /\ pc' = IF pc = "join_tof" THEN "join_usb" ELSE "after"
    /\ UNCHANGED << prog, mainExit, pending, result, interrupted, duration_seconds,
                    now, start_time, is_recording, tof_camera, usb_camera, writer,
                    frame_count, closeCalls, initError, syncVars, dualVars,
                    frameVars,
                    reportVars,
                    pixelVars,
                    outputDir,
                    captureVars,
                    detectVars,
                    testVars >>

\* a KeyboardInterrupt raised while the controller waits in a join: the
\* joins are outside the try, the exception leaves record_synchronized and
\* main (`except Exception` does not catch it)
DualInterruptInJoin ==
    /\ prog = "dual"
    /\ pc \in {"join_tof", "join_usb"}
    /\ ~interrupted
    /\ interrupted' = TRUE
    /\ mainExit' = "interrupt"
    /\ pc' = "cleanup"
    /\ UNCHANGED << prog, pending, result, duration_seconds, now, start_time,
                    is_recording, tof_camera, usb_camera, writer, frame_count,
                    closeCalls, initError, syncVars, dualVars, extraVars >>

\* lines 207-231: is_recording = False, the results are printed and returned
DualAfterJoin ==
    /\ prog = "dual"
    /\ pc = "after"
    /\ is_recording' = FALSE
    /\ result' = "summary"
    /\ pc' = "cleanup"
    /\ UNCHANGED << prog, mainExit, pending, interrupted, duration_seconds, now,
                    start_time, tof_camera, usb_camera, writer, frame_count,
                    closeCalls, initError, syncVars, dualVars, extraVars >>

\* an assignment that replaces the mapping by one holding this key only
StoreResultWholeMapping(r, t, v) == [u \in Streams |-> IF u = t THEN v ELSE "none"]

\* a thread that ends without storing anything
StoreResultDropped(r, t, v) == r

\* `self.results['tof'] = ...`, `self.results['usb'] = ...` (lines 118, 126,
\* 161, 169): an item assignment under the thread's own key
StoreResult(r, t, v) == [r EXCEPT ![t] = v]

\* what a thread that left its loop does with its writer (lines 112-113,
\* 155-156)
ThreadReleaseWriter(w) == ReleaseWriter(w)

\* a thread loop that tests the duration only
ThreadKeepRecordingIgnoresFlag == (now - start_time) < duration_seconds

\* lines 89 and 142: `while self.is_recording and (time.time() - start_time)
\* < duration`
ThreadKeepRecording == is_recording /\ (now - start_time) < duration_seconds

\* lines 89 and 142: the loop condition; when it fails the writer is
\* released and the summary stored under the thread's key (lines 112-123,
\* 155-166)
ThreadLoopHead(t) ==
    /\ prog = "dual"
    /\ tpc[t] = "head"
    /\ IF ThreadKeepRecording
         THEN /\ tpc' = [tpc EXCEPT ![t] = "acq"]
              /\ UNCHANGED << writer, results, threadSummary >>
         ELSE /\ writer' = [writer EXCEPT ![t] = ThreadReleaseWriter(writer[t])]
              /\ results' = StoreResult(results, t, "summary")
              /\ threadSummary' =
                   [threadSummary EXCEPT
                      ![t] = {[duration |-> now - start_time,
                               frame_count |-> frames[t],
                               fps |-> AverageRate(frames[t], now - start_time)]}]
              /\ tpc' = [tpc EXCEPT ![t] = "done"]
    /\ UNCHANGED << prog, pc, mainExit, pending, result, interrupted,
                    duration_seconds, now, start_time, is_recording, tof_camera,
                    usb_camera, frame_count, closeCalls, initError, syncVars,
                    frames, joinTimedOut, frameVars, summary,
                    pixelVars,
                    outputDir,
                    captureVars,
                    detectVars,
                    testVars >>

\* what the except clause of a thread (lines 125-127, 168-170) does with
\* the thread's writer: nothing
ThreadExceptWriter(w) == w

\* an except clause that ends the session for both threads
ThreadExceptStopsSession(f) == FALSE

\* what the except clause of a thread does with the recorder's
\* is_recording flag: nothing, it stores the error and prints it
ThreadExceptFlag(f) == f

\* lines 90-110 and 143-153: one acquisition.  "ok": the writer is created
\* at the first frame ("open", "bad" or "raise"), the frame written and
\* counted; "invalid": no frame; "wrongtype" (ToF thread): a frame that is
\* not RawData, which is not given back; "raise": the exception, like one
\* of the writer, ends the thread in its except clause, which stores the
\* error
ThreadAcquire(t) ==
    /\ prog = "dual"
    /\ tpc[t] = "acq"
    /\ \E o \in {"ok", "invalid", "wrongtype", "raise"}, ow \in {"open", "bad", "raise"},
          sz \in NextSizes(firstSize[t]) :
         /\ (o # "ok" => sz = "w1")
         /\ firstSize' = FirstSize(firstSize, t, o, sz)
         /\ (o = "ok" => frames[t] < MaxThreadFrames)
         /\ (o = "wrongtype" => t = "tof")
         /\ unreleased' = (unreleased \/ TofFrameKept(o))
         /\ ((o # "ok" \/ writer[t].st # "none") => ow = "open")
         /\ CASE o = "raise" \/ (o = "ok" /\ ow = "raise") ->
                   /\ results' = StoreResult(results, t, "error")
                   /\ writer' = [writer EXCEPT ![t] = ThreadExceptWriter(writer[t])]
                   /\ is_recording' = ThreadExceptFlag(is_recording)
                   /\ tpc' = [tpc EXCEPT ![t] = "done"]
                   /\ UNCHANGED frames
              [] o = "ok" /\ ow # "raise" ->
                   /\ writer' = [writer EXCEPT
                                   ![t] = WriteFrame(OpenWriter(writer[t], ow, sz), sz)]
                   /\ frames' = [frames EXCEPT ![t] = @ + 1]
                   /\ tpc' = [tpc EXCEPT ![t] = "head"]
                   /\ UNCHANGED << results, is_recording >>
              [] o \in {"invalid", "wrongtype"} ->
                   /\ tpc' = [tpc EXCEPT ![t] = "head"]
                   /\ UNCHANGED << writer, frames, results, is_recording >>
    /\ UNCHANGED << prog, pc, mainExit, pending, result, interrupted,
                    duration_seconds, now, start_time, tof_camera,
                    usb_camera, frame_count, closeCalls, initError, syncVars,
                    joinTimedOut, frameSize,
                    reportVars,
                    pixelVars,
                    outputDir,
                    captureVars,
                    detectVars,
                    testVars >>

\* time passes while the threads and the controller run
DualTick ==
    /\ prog = "dual"
    /\ pc \in {"wait", "join_tof", "join_usb"}
    /\ now < start_time + duration_seconds + 1
    /\ now' = now + 1
    /\ UNCHANGED << prog, pc, mainExit, pending, result, interrupted,
                    duration_seconds, start_time, is_recording, tof_camera,
                    usb_camera, writer, frame_count, closeCalls, initError,
                    syncVars, dualVars, extraVars >>

\* DualCameraRecorder.stop_recording called from outside while recording
DualStopRecording ==
    /\ prog = "dual"
    /\ pc = "wait"
    /\ is_recording
    /\ is_recording' = FALSE
    /\ UNCHANGED << prog, pc, mainExit, pending, result, interrupted,
                    duration_seconds, now, start_time, tof_camera, usb_camera,
                    writer, frame_count, closeCalls, initError, syncVars, dualVars, extraVars >>

\* DualCameraRecorder.close, lines 237-241: the flag is cleared, then each
\* thread still alive is joined for at most 2 s
DualCloseStop ==
    /\ prog = "dual"
    /\ pc \in {"cleanup", "exit"}
    /\ closeCalls < MaxCloseCalls
    /\ is_recording' = FALSE
    /\ pc' = "close_join"
    /\ UNCHANGED << prog, mainExit, pending, result, interrupted, duration_seconds,
                    now, start_time, tof_camera, usb_camera, writer, frame_count,
                    closeCalls, initError, syncVars, dualVars, extraVars >>

DualCloseTof(c) == IF c.set THEN TofClose(TofStop(c)) ELSE c
DualCloseUsb(c) == IF c.set THEN UsbRelease(c) ELSE c

\* lines 243-250: the joins have returned (thread ended, or 2 s over with
\* the thread still in requestFrame(2000) or read()); the cameras are
\* stopped, closed and released
DualCloseRelease ==
    /\ prog = "dual"
    /\ pc = "close_join"
    /\ \A t \in Streams : tpc[t] # "head"
    /\ tof_camera' = DualCloseTof(tof_camera)
    /\ usb_camera' = DualCloseUsb(usb_camera)
    /\ closeCalls' = closeCalls + 1
    /\ pc' = "exit"
    /\ mainExit' = IF mainExit = "running" THEN "normal" ELSE mainExit
    /\ UNCHANGED << prog, pending, result, interrupted, duration_seconds, now,
                    start_time, is_recording, writer, frame_count, initError,
                    syncVars, dualVars, extraVars >>

DualNext ==
    \/ DualRecordBegin
    \/ DualStartThreads
    \/ DualWait
    \/ DualInterruptInTry
    \/ DualJoin
    \/ DualInterruptInJoin
    \/ DualAfterJoin
    \/ \E t \in Streams : ThreadLoopHead(t)
    \/ \E t \in Streams : ThreadAcquire(t)
    \/ DualTick
    \/ DualStopRecording
    \/ DualCloseStop
    \/ DualCloseRelease

\* -------------------------------------------------- tof_recorder.py main
\* lines 107-123: cam.init over CSI, then over USB; a failure of both, or an
\* exception, returns -1
TofMainInit ==
    /\ prog = "tof"
    /\ pc = "start"
    /\ \E o \in {"ok", "failed", "raise"} :
         /\ tof_camera' = [tof_camera EXCEPT !.set = TRUE, !.open = (o = "ok")]
         /\ pc' = IF o = "ok" THEN "t_start" ELSE "exit"
         /\ mainExit' = IF o = "ok" THEN mainExit ELSE "error"
         /\ initError' = IF o = "ok" THEN initError ELSE "tof"
    /\ UNCHANGED << prog, pending, result, interrupted, duration_seconds, now,
                    start_time, is_recording, usb_camera, writer, frame_count,
                    closeCalls, syncVars, dualVars, extraVars >>

\* what main does with the camera when cam.start() fails (lines 126-128):
\* it returns -1
TofStartFailure(c) == c

\* lines 126-130: cam.start()
TofMainStart ==
    /\ prog = "tof"
    /\ pc = "t_start"
    /\ \E ok \in BOOLEAN :
         /\ tof_camera' = IF ok THEN [tof_camera EXCEPT !.started = TRUE]
                          ELSE TofStartFailure(tof_camera)
         /\ pc' = IF ok THEN "menu" ELSE "exit"
         /\ mainExit' = IF ok THEN mainExit ELSE "error"
         /\ initError' = IF ok THEN initError ELSE "tof"
    /\ UNCHANGED << prog, pending, result, interrupted, duration_seconds, now,
                    start_time, is_recording, usb_camera, writer, frame_count,
                    closeCalls, syncVars, dualVars, extraVars >>

\* capture_single_frame, lines 34-67: whether the call keeps the frame it
\* obtained.  The frame is given back at line 66, after the getters and the
\* reshape(180, 240); an exception raised by one of them ("raise_held")
\* leaves the function before that line
CaptureFrameKept(o) == o = "raise_held"

\* lines 133-186: one round of the menu.  "capture" (choices 1 and 3) calls
\* capture_single_frame ("ok" a frame, "invalid" None, "raise" an exception
\* of requestFrame, "raise_held" one raised after it), whose exception is
\* caught at line 190; "exit" is choice 4
TofMainMenu ==
    /\ prog = "tof"
    /\ pc = "menu"
    /\ \E choice \in {"capture", "continuous", "exit"},
          o \in {"ok", "invalid", "raise", "raise_held"}, n \in 0..MaxNumFrames :
         /\ (choice # "capture" => o = "ok")
         /\ (choice # "continuous" => n = 0)
         /\ unreleased' = (unreleased \/ CaptureFrameKept(o))
         /\ pc' = CASE choice = "exit" \/ o \in {"raise", "raise_held"} -> "t_finally"
                    [] choice = "continuous" /\ n > 0 -> "capture"
                    [] OTHER -> "menu"
         /\ mainExit' = IF o \in {"raise", "raise_held"} THEN "error" ELSE mainExit
         /\ IF choice = "continuous" /\ n > 0
              THEN /\ num_frames' = n
                   /\ loop_i' = 0
                   /\ attempts' = 0
                   /\ succeeded' = {}
                   /\ saved' = [k \in 0..MaxNumFrames |-> 0]
                   /\ ccState' = "running"
              ELSE UNCHANGED captureVars
    /\ UNCHANGED << prog, pending, result, interrupted, duration_seconds, now,
                    start_time, is_recording, tof_camera, usb_camera, writer,
                    frame_count, closeCalls, initError, syncVars, dualVars,
                    joinTimedOut, frameSize, firstSize,
                    reportVars,
                    pixelVars,
                    outputDir,
                    detectVars,
                    testVars >>

\* a capture that numbers its frames from 0, like its loop variable
FrameNumberFromZero(k) == k

\* lines 86, 88: the frame number handed to save_raw_data in iteration k of
\* `for i in range(num_frames)`
FrameNumber(k) == k + 1

\* continuous_capture, lines 75-96: one iteration of the loop, or its end
\* (line 98).  capture_single_frame ends "ok" (depth data), "invalid" (no
\* frame or no depth data: `continue`), "raise" or "raise_held" (an
\* exception before or after the frame was obtained); "save_raise" is an
\* exception of save_raw_data.  The function has no try: an exception leaves
\* it.  A ValueError is caught by the `except ValueError` around the call
\* (line 163) and the menu goes on, any other by main's `except Exception`
ContinuousCaptureStep ==
    /\ prog = "tof"
    /\ pc = "capture"
    /\ IF loop_i < num_frames
         THEN \E o \in {"ok", "invalid", "raise", "raise_held", "save_raise"},
                 valueError \in BOOLEAN :
                /\ (o \in {"ok", "invalid"} => ~valueError)
                /\ attempts' = attempts + 1
                /\ unreleased' = (unreleased \/ CaptureFrameKept(o))
                /\ succeeded' = IF o \in {"ok", "save_raise"}
                                   THEN succeeded \cup {attempts + 1} ELSE succeeded
                /\ saved' = IF o = "ok"
                               THEN [saved EXCEPT ![FrameNumber(loop_i)] = @ + 1]
                               ELSE saved
                /\ IF o \in {"ok", "invalid"}
                     THEN /\ loop_i' = loop_i + 1
                          /\ UNCHANGED << pc, mainExit, ccState >>
                     ELSE /\ ccState' = "raised"
                          /\ pc' = IF valueError THEN "menu" ELSE "t_finally"
                          /\ mainExit' = IF valueError THEN mainExit ELSE "error"
                          /\ UNCHANGED loop_i
         ELSE /\ ccState' = "returned"
              /\ pc' = "menu"
              /\ UNCHANGED << mainExit, loop_i, attempts, succeeded, saved, unreleased >>
    /\ UNCHANGED << prog, pending, result, interrupted, duration_seconds, now,
                    start_time, is_recording, tof_camera, usb_camera, writer,
                    frame_count, closeCalls, initError, syncVars, dualVars,
                    joinTimedOut, frameSize, firstSize, reportVars, pixelVars,
                    outputDir, num_frames,
                    detectVars,
                    testVars >>

\* a KeyboardInterrupt raised in requestFrame(1000) during a continuous
\* capture leaves the function and is caught by main (lines 188-189)
ContinuousCaptureInterrupt ==
    /\ prog = "tof"
    /\ pc = "capture"
    /\ loop_i < num_frames
    /\ ~interrupted
    /\ interrupted' = TRUE
    /\ ccState' = "raised"
    /\ pc' = "t_finally"
    /\ UNCHANGED << prog, mainExit, pending, result, duration_seconds, now,
                    start_time, is_recording, tof_camera, usb_camera, writer,
                    frame_count, closeCalls, initError, syncVars, dualVars,
                    joinTimedOut, frameVars, reportVars, pixelVars, outputDir,
                    num_frames, loop_i, attempts, succeeded, saved,
                    detectVars,
                    testVars >>

\* lines 188-189: a KeyboardInterrupt at the prompt is caught
TofMainInterrupt ==
    /\ prog = "tof"
    /\ pc = "menu"
    /\ ~interrupted
    /\ interrupted' = TRUE
    /\ pc' = "t_finally"
    /\ UNCHANGED << prog, mainExit, pending, result, duration_seconds, now,
                    start_time, is_recording, tof_camera, usb_camera, writer,
                    frame_count, closeCalls, initError, syncVars, dualVars, extraVars >>

\* lines 192-195: cam.stop()
TofMainFinally ==
    /\ prog = "tof"
    /\ pc = "t_finally"
    /\ tof_camera' = TofStop(tof_camera)
    /\ pc' = "exit"
    /\ mainExit' = IF mainExit = "running" THEN "normal" ELSE mainExit
    /\ UNCHANGED << prog, pending, result, interrupted, duration_seconds, now,
                    start_time, is_recording, usb_camera, writer, frame_count,
                    closeCalls, initError, syncVars, dualVars, extraVars >>

TofNext ==
    \/ TofMainInit
    \/ TofMainStart
    \/ TofMainMenu
    \/ ContinuousCaptureStep
    \/ ContinuousCaptureInterrupt
    \/ TofMainInterrupt
    \/ TofMainFinally

\* ------------------------------------------------------------------------
\* usb_recorder.py --detect: detect_cameras (lines 6-36) called by main
\* (lines 151-157), which has no try around it

\* main, line 152: the call of detect_cameras
DetectBegin ==
    /\ prog = "detect"
    /\ pc = "start"
    /\ \E m \in 0..MaxIndex : max_index' = m
    /\ probe_i' = 0
    /\ available_cameras' = << >>
    /\ detState' = "running"
    /\ pc' = "d_probe"
    /\ UNCHANGED << prog, mainExit, pending, result, interrupted, duration_seconds,
                    now, start_time, is_recording, tof_camera, usb_camera, writer,
                    frame_count, closeCalls, initError, syncVars, dualVars,
                    joinTimedOut, frameVars, reportVars, pixelVars, outputDir,
                    captureVars, handles, delivered, probed,
                    testVars >>

\* lines 11-28: cv2.VideoCapture(i) and, when it is opened, one read.
\* "closed": the device did not open; "noframe": it opened and delivered no
\* frame; "working": it opened and delivered a frame, the index is appended
\* and a preview shown; "raise": it opened and the read or the preview
\* (imshow, waitKey) raised, which leaves detect_cameras and main.  After
\* range(max_index) is exhausted the list is returned (line 36)
DetectProbe ==
    /\ prog = "detect"
    /\ pc = "d_probe"
    /\ IF probe_i < max_index
         THEN \E o \in {"closed", "noframe", "working", "raise"} :
                /\ probed' = Append(probed, probe_i)
                /\ handles' = IF o = "closed" THEN handles ELSE handles \cup {probe_i}
                /\ delivered' = IF o = "working" THEN delivered \cup {probe_i}
                                                 ELSE delivered
                /\ available_cameras' = IF o = "working"
                                           THEN Append(available_cameras, probe_i)
                                           ELSE available_cameras
                /\ pc' = IF o = "raise" THEN "exit" ELSE "d_release"
                /\ detState' = IF o = "raise" THEN "raised" ELSE detState
                /\ mainExit' = IF o = "raise" THEN "error" ELSE mainExit
         ELSE /\ detState' = "returned"
              /\ pc' = "exit"
              /\ mainExit' = "normal"
              /\ UNCHANGED << probed, handles, delivered, available_cameras >>
    /\ UNCHANGED << prog, pending, result, interrupted, duration_seconds,
                    now, start_time, is_recording, tof_camera, usb_camera, writer,
                    frame_count, closeCalls, initError, syncVars, dualVars,
                    joinTimedOut, frameVars, reportVars, pixelVars, outputDir,
                    captureVars, max_index, probe_i,
                    testVars >>

\* a release that is skipped
ReleaseCaptureSkipped(h, k) == h

\* line 29: cap.release(), the device of index k is given back (nothing
\* happens when it did not open)
ReleaseCapture(h, k) == h \ {k}

\* line 29 and the step of the for loop
DetectRelease ==
    /\ prog = "detect"
    /\ pc = "d_release"
    /\ handles' = ReleaseCapture(handles, probe_i)
    /\ probe_i' = probe_i + 1
    /\ pc' = "d_probe"
    /\ UNCHANGED << prog, mainExit, pending, result, interrupted, duration_seconds,
                    now, start_time, is_recording, tof_camera, usb_camera, writer,
                    frame_count, closeCalls, initError, syncVars, dualVars,
                    joinTimedOut, frameVars, reportVars, pixelVars, outputDir,
                    captureVars, max_index, available_cameras, delivered, probed,
                    detState,
                    testVars >>

DetectNext ==
    \/ DetectBegin
    \/ DetectProbe
    \/ DetectRelease

\* ------------------------------------------------------------------------
\* test_cameras.py: main (lines 73-92) calls test_usb_camera, then
\* test_tof_camera, and exits with the status of both.  Neither test nor
\* main has a try around the camera calls: an exception of one of them
\* ("raise") ends the process with a traceback and status 1

\* test_usb_camera, lines 9-12: cv2.VideoCapture(camera_index); a device that
\* did not open makes the test return False
TestUsbOpen ==
    /\ prog = "testcams"
    /\ pc = "start"
    /\ \E opened \in BOOLEAN :
         /\ usb_camera' = [usb_camera EXCEPT !.set = TRUE, !.open = opened]
         /\ usb_ok' = IF opened THEN usb_ok ELSE "False"
         /\ pc' = IF opened THEN "tu_read" ELSE "tt_open"
    /\ UNCHANGED << prog, pending, result, interrupted, duration_seconds,
                    now, start_time, is_recording, writer, frame_count,
                    closeCalls, initError, syncVars, dualVars, joinTimedOut,
                    frameVars, reportVars, pixelVars, outputDir, captureVars,
                    detectVars, mainExit, tof_camera, tof_ok, exit_status >>

\* test_usb_camera, lines 14-28: one read; without a frame the handle is
\* released and the test returns False (15-18), with one it is released and
\* the test returns True (27-28)
TestUsbRead ==
    /\ prog = "testcams"
    /\ pc = "tu_read"
    /\ \E o \in {"ok", "noread", "raise"} :
         /\ usb_camera' = IF o = "raise" THEN usb_camera ELSE UsbRelease(usb_camera)
         /\ usb_ok' = CASE o = "ok" -> "True" [] o = "noread" -> "False"
                         [] OTHER -> "raised"
         /\ pc' = IF o = "raise" THEN "exit" ELSE "tt_open"
         /\ exit_status' = IF o = "raise" THEN {1} ELSE exit_status
         /\ mainExit' = IF o = "raise" THEN "error" ELSE mainExit
    /\ UNCHANGED << prog, pending, result, interrupted, duration_seconds,
                    now, start_time, is_recording, writer, frame_count,
                    closeCalls, initError, syncVars, dualVars, joinTimedOut,
                    frameVars, reportVars, pixelVars, outputDir, captureVars,
                    detectVars, tof_camera, tof_ok >>

\* test_tof_camera, lines 33-50: the import and camera.open over CSI, then
\* USB; "noimport" and "closed" make the test return False
TestTofOpen ==
    /\ prog = "testcams"
    /\ pc = "tt_open"
    /\ \E o \in {"noimport", "closed", "opened", "raise"} :
         /\ tof_camera' = IF o \in {"closed", "opened"}
                            THEN [tof_camera EXCEPT !.set = TRUE, !.open = (o = "opened")]
                            ELSE tof_camera
         /\ tof_ok' = CASE o \in {"noimport", "closed"} -> "False"
                         [] o = "raise" -> "raised"
                         [] OTHER -> tof_ok
         /\ pc' = CASE o = "opened" -> "tt_start" [] o = "raise" -> "exit"
                     [] OTHER -> "t_report"
         /\ exit_status' = IF o = "raise" THEN {1} ELSE exit_status
         /\ mainExit' = IF o = "raise" THEN "error" ELSE mainExit
    /\ UNCHANGED << prog, pending, result, interrupted, duration_seconds,
                    now, start_time, is_recording, writer, frame_count,
                    closeCalls, initError, syncVars, dualVars, joinTimedOut,
                    frameVars, reportVars, pixelVars, outputDir, captureVars,
                    detectVars, usb_camera, usb_ok >>

\* test_tof_camera, lines 52-56: camera.start; when it fails the camera is
\* closed and the test returns False
TestTofStart ==
    /\ prog = "testcams"
    /\ pc = "tt_start"
    /\ \E o \in {"ok", "failed", "raise"} :
         /\ tof_camera' = CASE o = "ok" -> [tof_camera EXCEPT !.started = TRUE]
                             [] o = "failed" -> TofClose(tof_camera)
                             [] OTHER -> tof_camera
         /\ tof_ok' = CASE o = "failed" -> "False" [] o = "raise" -> "raised"
                         [] OTHER -> tof_ok
         /\ pc' = CASE o = "ok" -> "tt_frame" [] o = "raise" -> "exit"
                     [] OTHER -> "t_report"
         /\ exit_status' = IF o = "raise" THEN {1} ELSE exit_status
         /\ mainExit' = IF o = "raise" THEN "error" ELSE mainExit
    /\ UNCHANGED << prog, pending, result, interrupted, duration_seconds,
                    now, start_time, is_recording, writer, frame_count,
                    closeCalls, initError, syncVars, dualVars, joinTimedOut,
                    frameVars, reportVars, pixelVars, outputDir, captureVars,
                    detectVars, usb_camera, usb_ok >>

\* test_tof_camera, lines 58-71: requestFrame(1000); without a frame the
\* camera is stopped and closed and the test returns False (59-63), with
\* one the frame is given back, the camera stopped and closed and the test
\* returns True (68-71)
TestTofFrame ==
    /\ prog = "testcams"
    /\ pc = "tt_frame"
    /\ \E o \in {"frame", "noframe", "raise"} :
         /\ tof_camera' = IF o = "raise" THEN tof_camera
                            ELSE TofClose(TofStop(tof_camera))
         /\ tof_ok' = CASE o = "frame" -> "True" [] o = "noframe" -> "False"
                         [] OTHER -> "raised"
         /\ pc' = IF o = "raise" THEN "exit" ELSE "t_report"
         /\ exit_status' = IF o = "raise" THEN {1} ELSE exit_status
         /\ mainExit' = IF o = "raise" THEN "error" ELSE mainExit
    /\ UNCHANGED << prog, pending, result, interrupted, duration_seconds,
                    now, start_time, is_recording, writer, frame_count,
                    closeCalls, initError, syncVars, dualVars, joinTimedOut,
                    frameVars, reportVars, pixelVars, outputDir, captureVars,
                    detectVars, usb_camera, usb_ok >>

\* an exit status that is 0 as soon as one camera works
ExitStatusEither(u, t) == IF u \/ t THEN 0 ELSE 1

\* main, lines 86-92: sys.exit(0) when usb_ok and tof_ok, sys.exit(1) otherwise
ExitStatus(u, t) == IF u /\ t THEN 0 ELSE 1

\* main, lines 81-92: the report and the exit
TestMainExit ==
    /\ prog = "testcams"
    /\ pc = "t_report"
    /\ exit_status' = {ExitStatus(usb_ok = "True", tof_ok = "True")}
    /\ mainExit' = "normal"
    /\ pc' = "exit"
    /\ UNCHANGED << prog, pending, result, interrupted, duration_seconds,
                    now, start_time, is_recording, writer, frame_count,
                    closeCalls, initError, syncVars, dualVars, joinTimedOut,
                    frameVars, reportVars, pixelVars, outputDir, captureVars,
                    detectVars, tof_camera, usb_camera, usb_ok, tof_ok >>

TestNext ==
    \/ TestUsbOpen
    \/ TestUsbRead
    \/ TestTofOpen
    \/ TestTofStart
    \/ TestTofFrame
    \/ TestMainExit

Next ==
    \/ InitTof
    \/ InitUsb
    \/ SyncNext
    \/ UsbNext
    \/ DualNext
    \/ TofNext
    \/ DetectNext
    \/ TestNext

Spec == Init /\ [][Next]_vars

\* tof_recorder.py alone; an iteration of continuous_capture that is due is
\* taken: requestFrame(1000) waits one second at most
InitTofMain == Init /\ prog = "tof"

FairSpecTof == InitTofMain /\ [][TofNext]_vars /\ WF_vars(ContinuousCaptureStep)

\* ------------------------------------------------------------------------
\* The sync loop alone, with the fairness of a running single-threaded
\* program: a step of the loop that can be taken is taken (each acquisition
\* returns within its timeout, each sleep ends).
SyncLoopStep ==
    \/ SyncLoopHead
    \/ SyncAcquireTof
    \/ SyncAcquireUsb
    \/ SyncClassify
    \/ SyncPace

InitSync == Init /\ prog = "sync"

NextSync ==
    \/ InitTof
    \/ InitUsb
    \/ SyncNext

FairSpecSync == InitSync /\ [][NextSync]_vars /\ WF_vars(SyncLoopStep)

SyncLoopPcs == {"head", "tof", "usb", "classify", "pace"}

\* ------------------------------------------------------------------------
\* The sync loop driven by a fake source pair: the ToF source delivers a
\* RawData frame at every poll, the USB source fails at every 3rd poll.
\* Each cycle polls each source once (lines 113-146), so the poll in
\* progress is poll number `cycles` of either source.
ScenarioAcquireTof == SyncAcquireTof /\ tofRes' = "ok"

ScenarioAcquireUsb ==
    SyncAcquireUsb /\ usbRes' = (IF cycles % 3 = 0 THEN "invalid" ELSE "ok")

InitScenario == InitRun(ScenarioCycles) /\ prog = "sync" /\ raw = 0

NextScenario ==
    \/ InitTof
    \/ InitUsb
    \/ SyncRecordBegin
    \/ SyncLoopHead
    \/ ScenarioAcquireTof
    \/ ScenarioAcquireUsb
    \/ SyncClassify
    \/ SyncPace
    \/ SyncInterrupt
    \/ SyncFinally
    \/ SyncSummary
    \/ SyncStopRecording
    \/ SyncClose

SpecScenario == InitScenario /\ [][NextScenario]_vars

\* ------------------------------------------------------------------------
\* The conversion of one raw ToF sample to 8 bits, as the sync loop (line
\* 121) and the ToF thread (line 96) apply it to every sample of a frame:
\* `buf_8bit = (buf / (1 << 4)).astype(np.uint8)`
RawScale == 16
Uint8Max == 255

\* buf / (1 << 4) is a float; the cast truncates it toward zero
Truncated(v) == IF v >= 0 THEN v \div RawScale ELSE 0 - ((0 - v) \div RawScale)

\* astype(np.uint8) of a float whose truncation is q: q itself when it fits;
\* otherwise the C cast is undefined, and a build either wraps the value
\* modulo 256 or saturates it
AsUint8(q) ==
    IF 0 <= q /\ q <= Uint8Max THEN {q}
    ELSE {q % (Uint8Max + 1), IF q > Uint8Max THEN Uint8Max ELSE 0}

ConvertSample ==
    /\ pix = {}
    /\ \E v \in AsUint8(Truncated(raw)) : pix' = {v}
    /\ UNCHANGED << prog, pc, mainExit, pending, result, interrupted,
                    duration_seconds, now, start_time, is_recording, tof_camera,
                    usb_camera, writer, frame_count, closeCalls, initError,
                    syncVars, dualVars, joinTimedOut, frameVars, reportVars, raw,
                    outputDir,
                    captureVars,
                    detectVars,
                    testVars >>

InitPixel ==
    /\ InitRun(0)
    /\ prog \in {"sync", "dual"}
    /\ raw \in (0 - MaxRaw)..MaxRaw

NextPixel == ConvertSample

SpecPixel == InitPixel /\ [][NextPixel]_vars

\* ============================== claims ==================================

C3_AcquisitionFailureContained ==
    [][ (prog = "sync" /\ interrupted' = interrupted) =>
          /\ (pc = "tof" => (pc' \in {"tof", "usb"} /\ pending' = "none"))
          /\ (pc = "usb" => (pc' \in {"usb", "classify"} /\ pending' = "none"))
          /\ ((pc = "classify" /\ ~(tof_success /\ usb_success)) =>
                 /\ pc' \in {"classify", "pace"}
                 /\ pending' = "none"
                 /\ (pc' = "pace" => sync_failures' = sync_failures + 1))
          /\ (pc = "pace" => pc' \in {"pace", "head"}) ]_vars

\* both acquisitions raised, the cycle was counted as failed and the loop is
\* about to start the next cycle
C3_Witness ==
    /\ prog = "sync"
    /\ pc = "head"
    /\ tofRes = "raise"
    /\ usbRes = "raise"
    /\ both_failures = 1
    /\ pending = "none"
    /\ KeepRecording

\* C4 (as claimed): when a recording has ended, on whatever way, every sink
\* that was created has been released exactly once: after the finally of
\* the sync loop and of USBRecorder.record_video, and when a recording
\* thread of DualCameraRecorder has ended
C4_SinksClosedExactlyOnce ==
    /\ \A s \in Streams : writer[s].rel <= 1
    /\ (prog \in {"sync", "usb"} /\ pc \in {"summary", "cleanup", "exit"}) =>
          \A s \in Streams : writer[s].st # "none" => writer[s].rel = 1
    /\ prog = "dual" =>
          \A t \in Streams :
             (tpc[t] = "done" /\ writer[t].st # "none") => writer[t].rel = 1

\* C5 (as claimed): on a recorder whose cameras were initialized, a close()
\* that follows an earlier close() stops, closes and releases nothing a
\* second time
C5_SecondCloseReleasesNothing ==
    [][ (initError = "none" /\ closeCalls >= 1 /\ closeCalls' = closeCalls + 1) =>
          /\ tof_camera' = tof_camera
          /\ usb_camera' = usb_camera
          /\ writer' = writer ]_vars

\* the stop condition of the sync loop, spelled out
StopObserved == ~is_recording \/ (now - start_time) >= duration_seconds

\* C6: the sync loop leaves at its head only when the flag is cleared or
\* the duration is over; once that is so no further cycle is started, and
\* the loop is eventually left
C6_LoopStopsOnFlagOrDuration ==
    /\ [][ (prog = "sync" /\ pc = "head" /\ pc' = "finally") => StopObserved ]_vars
    /\ [][ (prog = "sync" /\ pc \in SyncLoopPcs /\ StopObserved) =>
              cycles' = cycles ]_vars
    /\ ((prog = "sync" /\ pc \in SyncLoopPcs /\ StopObserved)
           ~> (pc \notin SyncLoopPcs))

\* the flag was cleared in the middle of a cycle, before the duration was
\* over, and the loop has been left at its head
C6_Witness ==
    /\ prog = "sync"
    /\ pc = "finally"
    /\ ~interrupted
    /\ pending = "none"
    /\ ~is_recording
    /\ cycles >= 1
    /\ (now - start_time) < duration_seconds

\* C7 (as claimed): after a KeyboardInterrupt during a recording the run
\* ends with the sinks released and the partial results returned
C7_InterruptIsGraceful ==
    (prog \in {"sync", "usb", "dual"} /\ interrupted /\ pc = "exit") =>
        /\ result = "summary"
        /\ \A s \in Streams : writer[s].st # "none" => writer[s].rel >= 1

\* C8: when the USB camera fails to open in initialize_cameras, the ToF
\* camera has been stopped and closed (once each, before close() runs) when
\* the error reaches main, and the session records nothing
C8_UsbOpenFailureReleasesTof ==
    (prog \in {"sync", "dual"} /\ initError = "usb") =>
        /\ mainExit = "error"
        /\ ~tof_camera.open
        /\ ~tof_camera.started
        /\ tof_camera.stops >= 1
        /\ tof_camera.closes >= 1
        /\ (closeCalls = 0 => (tof_camera.stops = 1 /\ tof_camera.closes = 1))
        /\ pc \in {"cleanup", "close_join", "exit"}
        /\ ~is_recording
        /\ result = "none"
        /\ cycles = 0
        /\ frame_count = 0
        /\ \A t \in Streams : tpc[t] = "unstarted" /\ writer[t] = NoWriter

\* the error has just reached main: close() has not run yet
C8_Witness ==
    /\ prog \in {"sync", "dual"}
    /\ initError = "usb"
    /\ pc = "cleanup"
    /\ closeCalls = 0
    /\ usb_camera.set
    /\ ~usb_camera.open
    /\ tof_camera.stops = 1

\* C9 (as claimed): when a run has ended no camera is left open and no
\* opened encoder is left unreleased
C9_NoLeakAtExit ==
    pc = "exit" =>
        /\ ~tof_camera.open
        /\ ~usb_camera.open
        /\ \A s \in Streams : writer[s].st = "open" => writer[s].rel >= 1

\* C10 (as claimed): a sink whose encoder could not be created aborts the
\* session: no frame is written to it and none is counted
C10_SinkOpenFailureAborts ==
    prog \in {"sync", "usb"} =>
        \A s \in Streams :
           writer[s].st = "bad" => (writer[s].writes = 0 /\ frame_count = 0)


\* C11: with a ToF source that always delivers and a USB source that fails at
\* every 3rd poll, after k classified cycles the matched count is the
\* number of cycles in which the USB source did not fail (k - k div 3), the
\* USB-only failures are the USB failures (k div 3), and there is no
\* ToF-only and no both-failed cycle; a loop between two cycles, and a run
\* that returned its summary without an interrupt, has classified every
\* cycle it started
C11_ScenarioCounts ==
    LET k == frame_count + sync_failures
    IN  /\ usb_failures = k \div 3
        /\ frame_count = k - (k \div 3)
        /\ tof_failures = 0
        /\ both_failures = 0
        /\ (pc \in {"head", "pace"} \/ (result = "summary" /\ ~interrupted)
              => k = cycles)

\* six cycles were run and the summary returned: four matched, two USB-only
C11_Witness ==
    /\ result = "summary"
    /\ cycles = 6
    /\ frame_count = 4
    /\ usb_failures = 2

\* C12: in the two-thread mode a step of a recording thread leaves the stop
\* flag as it is and leaves the other thread's entry of the results mapping
\* as it is; an entry changes only in a step of its own thread, and only
\* from absent to its final value
C12_SharedStateSingleWriter ==
    [][\A t \in Streams :
          /\ (tpc[t] \in {"head", "acq"} /\ tpc'[t] # tpc[t]
                => /\ is_recording' = is_recording
                   /\ \A u \in Streams \ {t} : results'[u] = results[u])
          /\ (results'[t] # results[t]
                => /\ tpc[t] \in {"head", "acq"}
                   /\ tpc'[t] = "done"
                   /\ results[t] = "none")]_vars

\* both threads have stored their entry and the controller has cleared the flag
C12_Witness ==
    /\ prog = "dual"
    /\ results["tof"] = "summary"
    /\ results["usb"] = "error"
    /\ result = "summary"
    /\ ~is_recording

\* C13 as stated: when record_synchronized has returned the results mapping,
\* both recording threads have terminated and both entries are stored
C13_ResultsCompleteAtReturn ==
    prog = "dual" /\ result = "summary"
        => \A t \in Streams : tpc[t] = "done" /\ results[t] # "none"

\* C13: when record_synchronized has returned the results mapping, every
\* recording thread whose join(timeout=5) did not time out has terminated
\* and has its final entry stored in the mapping
C13_ResultsCompleteUnlessJoinTimedOut ==
    prog = "dual" /\ result = "summary"
        => \A t \in Streams \ joinTimedOut : tpc[t] = "done" /\ results[t] # "none"

\* the mapping was returned after both joins ended with their thread
C13_Witness ==
    /\ prog = "dual"
    /\ result = "summary"
    /\ joinTimedOut = {}
    /\ results["tof"] = "summary"
    /\ results["usb"] = "summary"
    /\ frames["tof"] = 1

\* C14: in the two-thread mode, while a recording thread is still running
\* (in its loop) no step of another thread stops, closes or releases that
\* thread's camera, or writes to or closes its sink
C14_ExclusiveOwnership ==
    [][\A t \in Streams :
          tpc[t] \in {"head", "acq"} /\ tpc'[t] = tpc[t]
              => /\ writer'[t] = writer[t]
                 /\ (t = "tof" => tof_camera' = tof_camera)
                 /\ (t = "usb" => usb_camera' = usb_camera)]_vars

C16_EveryFrameReleased == ~unreleased

\* C17 as stated: a sink exists only after the first successful frame of its
\* stream, was opened exactly once and has the resolution of that first
\* successful frame
C17_SinkAtFirstSuccessfulFrame ==
    \A s \in Streams :
        /\ (writer[s].st = "none" => writer[s].opens = 0)
        /\ (writer[s].st # "none"
              => /\ writer[s].opens = 1
                 /\ firstSize[s] # "none"
                 /\ writer[s].size = firstSize[s])

\* C17: a sink exists only after a successful frame of its stream, was
\* opened exactly once, at the resolution of the first frame written to it,
\* and once it exists it is neither opened again nor re-sized; a stream
\* with no successful frame has no sink
C17_SinkAtFirstWrittenFrame ==
    /\ [](\A s \in Streams :
            /\ (writer[s].st = "none" => writer[s].opens = 0 /\ writer[s].writes = 0)
            /\ (firstSize[s] = "none" => writer[s].st = "none")
            /\ (writer[s].st # "none" => writer[s].opens = 1)
            /\ (writer[s].writes > 0 => writer[s].size = writer[s].first))
    /\ [][\A s \in Streams :
            writer[s].st # "none"
                => /\ writer'[s].size = writer[s].size
                   /\ writer'[s].opens = writer[s].opens]_vars

\* the ToF sink of the sync loop has received two frames, the second of
\* another resolution than the first, which the sink was opened at
C17_Witness ==
    /\ prog = "sync"
    /\ writer["tof"].writes = 2
    /\ writer["tof"].size = writer["tof"].first
    /\ frameSize["tof"] # "none"
    /\ frameSize["tof"] # writer["tof"].size

\* the summaries computed so far: that of the record call (sync loop, USB
\* recorder) and those of the two threads of the dual recorder
Summaries == summary \cup UNION {threadSummary[t] : t \in Streams}

\* C18: in every summary the average rate is frame_count / duration when
\* duration > 0 and 0 otherwise, the division never has a zero denominator,
\* and frame_count and duration are the frames recorded and the time
\* elapsed since the start of the recording
C18_AverageRate ==
    /\ \A r \in Summaries :
          /\ r.fps.den # 0
          /\ (r.duration > 0 => r.fps.num * r.duration = r.frame_count * r.fps.den)
          /\ (r.duration <= 0 => r.fps.num = 0)
    /\ \A r \in summary :
          r.frame_count = frame_count /\ r.duration = now - start_time
    /\ \A t \in Streams : \A r \in threadSummary[t] :
          r.frame_count = frames[t] /\ r.duration <= now - start_time

\* the ToF thread has ended with no time elapsed (rate 0) and the USB
\* thread with one frame over a positive time
C18_Witness ==
    /\ prog = "dual"
    /\ \E r \in threadSummary["tof"] : r.duration = 0 /\ r.fps.num = 0
    /\ \E r \in threadSummary["usb"] : r.duration > 0 /\ r.frame_count = 1

\* C19: the success rate of the sync loop's summary is 100 * matched /
\* (matched + failed), 0 when no cycle was classified; it lies between 0 and
\* 100 and is 100 exactly when a cycle was classified and none failed
C19_SuccessRate ==
    prog = "sync"
        => \A s \in summary :
             LET r == s.sync_success_rate
                 m == frame_count
                 f == sync_failures
             IN  /\ r.den > 0
                 /\ (m + f = 0 => r.num = 0)
                 /\ (m + f > 0 => r.num * (m + f) = 100 * m * r.den)
                 /\ 0 <= r.num /\ r.num <= 100 * r.den
                 /\ (r.num = 100 * r.den <=> (m + f > 0 /\ f = 0))

\* a summary after one matched and one failed cycle: 50 percent
C19_Witness ==
    /\ prog = "sync"
    /\ frame_count = 1
    /\ sync_failures = 1
    /\ \E s \in summary : s.sync_success_rate.num * 2 = 100 * s.sync_success_rate.den
\* C20: rescaling a sample to 8 bits clips at the boundaries: a sample at or
\* above max_distance = 4000 gives 255, a sample at or below 0 gives 0, and
\* the sample 2000 gives about 128
C20_RescaleClips ==
    \A v \in pix :
        /\ (raw >= 4000 => v = 255)
        /\ (raw <= 0 => v = 0)
        /\ (raw = 2000 => v \in 124..132)


\* C21: in every cycle of the sync loop the two sources are polled one after
\* the other, ToF first and USB second, each exactly once: while the ToF
\* poll is due neither outcome of the cycle is recorded, while the USB poll
\* is due only the ToF outcome is, and afterwards both are; and whatever
\* the ToF outcome was, the USB poll is attempted and may end in each of
\* its outcomes
C21_EachSourcePolledOncePerCycle ==
    prog = "sync" =>
      /\ (pc = "tof" => (tofRes = "unset" /\ usbRes = "unset"))
      /\ (pc = "usb" =>
            /\ tofRes \in {"ok", "invalid", "raise"}
            /\ usbRes = "unset"
            /\ \A o \in {"ok", "invalid", "raise"} :
                  ENABLED (SyncAcquireUsb /\ usbRes' = o /\ tofRes' = tofRes))
      /\ (pc \in {"classify", "pace"} =>
            /\ tofRes \in {"ok", "invalid", "raise"}
            /\ usbRes \in {"ok", "invalid", "raise"})

\* a cycle whose ToF acquisition raised and whose USB read delivered a
\* frame all the same
C21_Witness ==
    /\ prog = "sync"
    /\ pc = "classify"
    /\ tofRes = "raise"
    /\ usbRes = "ok"
    /\ frameSize["usb"] # "none"

\* C22: the sync loop is paced to the target period of one tick (1/20 s):
\* the start of a cycle is at least one tick after the start of the cycle
\* before it, matched or failed, however fast the sources answered
C22_CycleStartsOnePeriodApart ==
    [][ (prog = "sync" /\ cycles >= 1 /\ cycles' = cycles + 1) =>
          capture_time' >= capture_time + 1 ]_vars

\* the second cycle starts exactly one tick after the first, a failed cycle
\* in which both sources answered at once
C22_Witness ==
    /\ prog = "sync"
    /\ pc = "tof"
    /\ cycles = 2
    /\ sync_failures = 1
    /\ frame_count = 0
    /\ start_time = 0
    /\ capture_time = 1
    /\ now = 1

\* C23: in the two-thread mode a failure inside a recording thread stays in
\* that thread: the step that stores a thread's error entry ends that thread
\* and changes nothing of the other thread (its position, frames, sink and
\* entry), leaves the is_recording flag as it was and does not reach the
\* controller; an entry once stored is never replaced, and a thread that
\* has ended has its one entry, a summary or an error
C23_ThreadFailureIsolated ==
    /\ [](\A t \in Streams :
            (prog = "dual" /\ tpc[t] = "done") => results[t] \in {"summary", "error"})
    /\ [][\A t \in Streams :
            /\ (results[t] # "none" => results'[t] = results[t])
            /\ ((results[t] = "none" /\ results'[t] = "error") =>
                  /\ tpc'[t] = "done"
                  /\ is_recording' = is_recording
                  /\ pc' = pc
                  /\ pending' = pending
                  /\ mainExit' = mainExit
                  /\ \A u \in Streams \ {t} :
                        /\ tpc'[u] = tpc[u]
                        /\ frames'[u] = frames[u]
                        /\ writer'[u] = writer[u]
                        /\ results'[u] = results[u])]_vars

\* the ToF thread ended in its except clause while the session was on, and
\* the USB thread recorded a frame afterwards and ended with its summary
C23_Witness ==
    /\ prog = "dual"
    /\ results["tof"] = "error"
    /\ results["usb"] = "summary"
    /\ frames["tof"] = 0
    /\ frames["usb"] = 1
    /\ writer["usb"].writes = 1
    /\ result = "summary"
    /\ mainExit = "running"

\* C24 (as claimed): is_recording is True only while a recording call is in
\* progress: once record_video, record_synchronized_frames or
\* record_synchronized has returned or raised and main is about to clean up,
\* the recorder's flag is False
C24_FlagClearedAfterRecording ==
    (prog \in {"sync", "usb", "dual"} /\ pc \in {"cleanup", "exit"}) => ~is_recording

\* C25: USBRecorder.record_video called on a recorder whose camera was never
\* initialized raises and changes nothing: while the recorder has no capture
\* handle, is_recording is False, no output directory was made, no sink was
\* created, no frame was read or counted and the recording loop is not
\* entered; the call ends with the error at its caller
C25_RecordBeforeInitChangesNothing ==
    /\ []((prog = "usb" /\ ~usb_camera.set) =>
            /\ ~is_recording
            /\ ~outputDir
            /\ writer["usb"] = NoWriter
            /\ frame_count = 0
            /\ firstSize["usb"] = "none"
            /\ pc \in {"start", "cleanup", "exit"})
    /\ [][(prog = "usb" /\ pc = "start" /\ ~usb_camera'.set /\ pc' # pc) =>
            /\ pc' = "cleanup"
            /\ mainExit' = "error"
            /\ is_recording' = is_recording
            /\ outputDir' = outputDir
            /\ writer' = writer
            /\ usb_camera' = usb_camera
            /\ result' = result]_vars

\* record_video was called on a new recorder and raised
C25_Witness ==
    /\ prog = "usb"
    /\ pc = "cleanup"
    /\ ~usb_camera.set
    /\ initError = "none"
    /\ mainExit = "error"
    /\ ~is_recording
    /\ ~outputDir

C27_DetectProbesAndReleases ==
    prog = "detect" =>
      /\ Cardinality(handles) <= 1
      /\ probed = [k \in 1..Len(probed) |-> k - 1]
      /\ Len(probed) <= max_index
      /\ (pc = "d_probe" => handles = {})
      /\ (detState = "returned" =>
            /\ handles = {}
            /\ Len(probed) = max_index
            /\ {available_cameras[k] : k \in 1..Len(available_cameras)} = delivered
            /\ \A k \in 1..Len(available_cameras) - 1 :
                  available_cameras[k] < available_cameras[k + 1])

\* three indices were probed: the first did not open, the second opened and
\* delivered nothing, the third works and is the one returned
C27_Witness ==
    /\ prog = "detect"
    /\ detState = "returned"
    /\ max_index = 3
    /\ probed = << 0, 1, 2 >>
    /\ available_cameras = << 2 >>
    /\ handles = {}

\* C28: the camera test utility runs the ToF test after the USB test
\* whatever the USB test returned, and exits with status 0 exactly when both
\* tests returned True; a test that has returned has given back the camera
\* it opened: the USB handle by release(), the ToF camera by close(), after
\* stop() when it had been started
C28_TestsRunAndRelease ==
    /\ [](prog = "testcams" =>
            /\ (usb_ok \in {"True", "False"} => ~usb_camera.open)
            /\ (tof_ok \in {"True", "False"} =>
                  (~tof_camera.open /\ ~tof_camera.started))
            /\ ((pc \in {"t_report", "exit"} /\ usb_ok \in {"True", "False"}) =>
                  tof_ok # "unset")
            /\ (pc = "exit" =>
                  /\ exit_status \in {{0}, {1}}
                  /\ (exit_status = {0} <=> (usb_ok = "True" /\ tof_ok = "True"))))
    /\ [][prog = "testcams" =>
            /\ ((usb_ok = "unset" /\ usb_ok' \in {"True", "False"}) => pc' = "tt_open")
            /\ ((usb_camera.open /\ ~usb_camera'.open) =>
                  usb_camera'.releases = usb_camera.releases + 1)
            /\ ((tof_camera.open /\ ~tof_camera'.open) =>
                  tof_camera'.closes = tof_camera.closes + 1)
            /\ ((tof_camera.started /\ ~tof_camera'.started) =>
                  tof_camera'.stops = tof_camera.stops + 1)]_vars

\* the USB test returned False after it had opened and released its camera,
\* the ToF test ran all the same and returned True with its camera stopped
\* and closed, and the utility exited with status 1
C28_Witness ==
    /\ prog = "testcams"
    /\ pc = "exit"
    /\ usb_ok = "False"
    /\ usb_camera.releases = 1
    /\ tof_ok = "True"
    /\ tof_camera.stops = 1
    /\ tof_camera.closes = 1
    /\ exit_status = {1}

=============================================================================
